---- MODULE Spec2Model ----
(***************************************************************************)
(* Paired-comparison subjective models of sureal                           *)
(* (src/sureal/pc_subjective_model.py): the three _run_modeling solvers    *)
(*   BTNR          Bradley-Terry, Newton-Raphson                           *)
(*   BTMLE         Bradley-Terry, fixed-point maximum likelihood           *)
(*   THURSTONE_MLE Thurstone, scipy.optimize.minimize(SLSQP)               *)
(*                                                                         *)
(* Numbers.  A float is modelled by an exact rational <<num, den>> in      *)
(* lowest terms with den > 0, or by one of the IEEE specials               *)
(* NaN = <<0,0>>, +inf = <<1,0>>, -inf = <<-1,0>>.  Division follows numpy  *)
(* (0/0 = nan, x/0 = +-inf, a warning and no exception).  A run leaves the *)
(* model (pc = "capped") when its next step is not exactly representable:  *)
(* np.exp of a non-zero argument, np.sqrt of a non-square, or a rational   *)
(* whose numerator or denominator exceeds MaxMag (TLC integers are 32      *)
(* bits).  A capped run takes no further step.                             *)
(***************************************************************************)
EXTENDS Integers, Sequences, FiniteSets, TLC

\* ------------------------------------------------------------------ bounds
MaxN == 2        \* enumerated matrices have 1..MaxN rows and columns
MaxCount == 1    \* enumerated win counts are 0..MaxCount
MaxMag == 20     \* iterate exactly while |num| and den stay within MaxMag

\* --------------------------------------------------------- float arithmetic
NaN == <<0, 0>>
PosInf == <<1, 0>>
NegInf == <<-1, 0>>
Zero == <<0, 1>>
One == <<1, 1>>

Abs(k) == IF k < 0 THEN -k ELSE k

RECURSIVE GCD(_, _)
GCD(a, b) == IF b = 0 THEN a ELSE GCD(b, a % b)

IsNaN(x) == x = NaN
IsInf(x) == x = PosInf \/ x = NegInf
IsFinite(x) == x[2] # 0

\* the float num/den, den possibly 0 or negative
Rat(num, den) ==
    IF den = 0
    THEN (IF num = 0 THEN NaN ELSE IF num > 0 THEN PosInf ELSE NegInf)
    ELSE LET g == GCD(Abs(num), Abs(den))
             s == IF den < 0 THEN -1 ELSE 1
         IN  <<s * (num \div g), Abs(den) \div g>>

FromInt(k) == <<k, 1>>

Neg(x) == <<-x[1], x[2]>>

Add(x, y) ==
    IF IsNaN(x) \/ IsNaN(y) THEN NaN
    ELSE IF IsInf(x) /\ IsInf(y) THEN (IF x = y THEN x ELSE NaN)
    ELSE IF IsInf(x) THEN x
    ELSE IF IsInf(y) THEN y
    ELSE LET g == GCD(x[2], y[2])
             l == x[2] * (y[2] \div g)
         IN  Rat(x[1] * (l \div x[2]) + y[1] * (l \div y[2]), l)

Sub(x, y) == Add(x, Neg(y))

Mul(x, y) ==
    IF IsNaN(x) \/ IsNaN(y) THEN NaN
    ELSE IF IsInf(x) \/ IsInf(y)
         THEN (IF x[1] = 0 \/ y[1] = 0 THEN NaN
               ELSE IF (x[1] > 0) = (y[1] > 0) THEN PosInf ELSE NegInf)
    ELSE LET g1 == GCD(Abs(x[1]), y[2])
             g2 == GCD(Abs(y[1]), x[2])
         IN  Rat((x[1] \div g1) * (y[1] \div g2), (x[2] \div g2) * (y[2] \div g1))

\* np.divide / the operator "/" on floats
Div(x, y) ==
    IF IsNaN(x) \/ IsNaN(y) THEN NaN
    ELSE IF IsInf(y) THEN (IF IsInf(x) THEN NaN ELSE Zero)
    ELSE IF IsInf(x) THEN (IF y[1] < 0 THEN Neg(x) ELSE x)
    ELSE IF y[1] = 0 THEN Rat(x[1], 0)
    ELSE Mul(x, Rat(y[2], y[1]))

Gt(x, y) == IsFinite(x) /\ IsFinite(y) /\ x[1] * y[2] > y[1] * x[2]

\* ------------------------------------------------------------ vectors
RECURSIVE SumTo(_, _)
SumTo(s, k) == IF k = 0 THEN Zero ELSE Add(SumTo(s, k - 1), s[k])

\* np.sum of a 1-D array
Sum(s) == SumTo(s, Len(s))

RECURSIVE IntSumTo(_, _)
IntSumTo(s, k) == IF k = 0 THEN 0 ELSE IntSumTo(s, k - 1) + s[k]

IntSum(s) == IntSumTo(s, Len(s))

AllFinite(s) == \A i \in 1..Len(s) : IsFinite(s[i])

\* largest numerator or denominator of a vector
Small(s) == \A i \in 1..Len(s) : Abs(s[i][1]) <= MaxMag /\ s[i][2] <= MaxMag

\* a vector of k zeros: np.zeros(k)
Zeros(k) == [i \in 1..k |-> Zero]

\* ------------------------------------------------------ convergence test
\* DELTA_THR = 1e-8, held as its reciprocal
DELTA_THR_INV == 100000000

\* sys.float_info.max: the largest number of the model stands in for it
FLOAT_MAX == <<2147483647, 1>>

\* |x| > DELTA_THR, without leaving 32 bits
AbsGtThr(x) == Abs(x[1]) > x[2] \div DELTA_THR_INV

RECURSIVE SumSqScaledTo(_, _)
SumSqScaledTo(c, k) ==
    IF k = 0 THEN Zero
    ELSE LET s == Rat(c[k][1] * DELTA_THR_INV, c[k][2])
         IN  Add(SumSqScaledTo(c, k - 1), Mul(s, s))

\* linalg.norm(c) > DELTA_THR for a finite vector c
NormGtThr(c) ==
    IF \E i \in 1..Len(c) : AbsGtThr(c[i])
    THEN TRUE
    ELSE Gt(SumSqScaledTo(c, Len(c)), One)

\* ----------------------------------------------------------- the matrix
Rows(m) == Len(m)
Cols(m) == Len(m[1])

\* the shape assertion comparing the row count with itself
Square_RowsOnly(m) == Rows(m) = Rows(m)

\* n, m = wm.shape; assert n == m
Square(m) == Rows(m) = Cols(m)

\* np.sum(m[i, :]) of an integer matrix
RowSum(m, i) == IntSum(m[i])

\* ------------------------------------------------------------- np.exp
\* np.exp is exact on the model's numbers at 0 only (e^q is irrational for
\* every other rational q): a pass of BTNR is taken only from a gamma on which
\* ExpExact holds, so the second branch of Exp is never a value of the model
ExpExact(g) == \A i \in 1..Len(g) : g[i] = Zero

Exp(x) == IF x = Zero THEN One ELSE NaN

\* ------------------------------------------------------------ np.sqrt
IsSquare(k) == \E r \in 0..k : r * r = k

ISqrt(k) == CHOOSE r \in 0..k : r * r = k

SqrtExact(x) == IsFinite(x) /\ x[1] >= 0 /\ IsSquare(x[1]) /\ IsSquare(x[2])

Sqrt(x) == <<ISqrt(x[1]), ISqrt(x[2])>>

\* ------------------------------------------------------- linalg.pinv
Det2(A) == Sub(Mul(A[1][1], A[2][2]), Mul(A[1][2], A[2][1]))

FrobSq2(A) ==
    Add(Add(Mul(A[1][1], A[1][1]), Mul(A[1][2], A[1][2])),
        Add(Mul(A[2][1], A[2][1]), Mul(A[2][2], A[2][2])))

\* Moore-Penrose inverse of a k x k matrix, k <= 2: the inverse when there is
\* one, 0 for the zero matrix, transpose / squared Frobenius norm at rank 1
pinv(A) ==
    IF Len(A) = 1
    THEN <<<<IF A[1][1] = Zero THEN Zero ELSE Div(One, A[1][1])>>>>
    ELSE IF Det2(A) # Zero
         THEN <<<<Div(A[2][2], Det2(A)), Div(Neg(A[1][2]), Det2(A))>>,
                <<Div(Neg(A[2][1]), Det2(A)), Div(A[1][1], Det2(A))>>>>
         ELSE IF FrobSq2(A) = Zero
              THEN <<<<Zero, Zero>>, <<Zero, Zero>>>>
              ELSE [i \in 1..2 |-> [j \in 1..2 |-> Div(A[j][i], FrobSq2(A))]]

\* np.matmul(A, x) of a square matrix and a vector
matmul(A, x) ==
    [i \in 1..Len(A) |-> Sum([j \in 1..Len(x) |-> Mul(A[i][j], x[j])])]

\* ------------------------------------------------------------- BTNR
\* gm = wm[0:nmo, :] + wm[:, 0:nmo].transpose()
gm(m) == [i \in 1..(Rows(m) - 1) |-> [j \in 1..Rows(m) |-> m[i][j] + m[j][i]]]

\* wins = np.sum(wm[0:nmo, :], axis=1)
wins(m) == [i \in 1..(Rows(m) - 1) |-> RowSum(m, i)]

\* gind = (gm > 0)
gind(m) == [i \in 1..(Rows(m) - 1) |-> [j \in 1..Rows(m) |-> gm(m)[i][j] > 0]]

\* pi = np.exp(gamma)
pi(g) == [i \in 1..Len(g) |-> Exp(g[i])]

\* rus[gind] = pius[gind] / (pius[gind] + piust[gind]); pius[i,j] = pi[i] and
\* piust[i,j] = pi[j]; rus is 0 elsewhere
rus(m, g) ==
    [i \in 1..(Rows(m) - 1) |-> [j \in 1..Rows(m) |->
        IF gind(m)[i][j] THEN Div(pi(g)[i], Add(pi(g)[i], pi(g)[j])) ELSE Zero]]

\* y[gind] = gm[gind] * rus[gind]
y_first(m, g) ==
    [i \in 1..(Rows(m) - 1) |-> [j \in 1..Rows(m) |->
        IF gind(m)[i][j] THEN Mul(FromInt(gm(m)[i][j]), rus(m, g)[i][j]) ELSE Zero]]

\* d2Q = -np.sum(y, axis=1); dL = wins + d2Q
dL(m, g) ==
    [i \in 1..(Rows(m) - 1) |-> Add(FromInt(wins(m)[i]), Neg(Sum(y_first(m, g)[i])))]

\* y[gind] = y[gind] * (1 - rus[gind])
y_second(m, g) ==
    [i \in 1..(Rows(m) - 1) |-> [j \in 1..Rows(m) |->
        IF gind(m)[i][j]
        THEN Mul(y_first(m, g)[i][j], Sub(One, rus(m, g)[i][j])) ELSE Zero]]

\* d2L = -np.diag(np.sum(y, axis=1)); d2L[squaregind] = y[:, :-1][squaregind]
d2L(m, g) ==
    [i \in 1..(Rows(m) - 1) |-> [j \in 1..(Rows(m) - 1) |->
        IF gind(m)[i][j] THEN y_second(m, g)[i][j]
        ELSE IF i = j THEN Neg(Sum(y_second(m, g)[i])) ELSE Zero]]

\* the update of the last parameter taken from the first, not fixed at 0
BTNR_change_Unpinned(m, g) ==
    Append(matmul(pinv(d2L(m, g)), dL(m, g)), matmul(pinv(d2L(m, g)), dL(m, g))[1])

\* change = np.matmul(linalg.pinv(d2L), dL); change = np.hstack([change, [0]])
BTNR_change(m, g) == Append(matmul(pinv(d2L(m, g)), dL(m, g)), Zero)

\* gamma -= change
VecSub(a, b) == [i \in 1..Len(a) |-> Sub(a[i], b[i])]

\* scores = gamma; scores[-1] = 0.0
PinLast(g) == [g EXCEPT ![Len(g)] = Zero]

\* np.mean
Mean(s) == Div(Sum(s), FromInt(Len(s)))

\* np.std(s) ** 2: the mean of the squared deviations from the mean
Var(s) == Mean([i \in 1..Len(s) |-> Mul(Sub(s[i], Mean(s)), Sub(s[i], Mean(s)))])

\* (scores - scores_mean) / scores_std
ZScore(s) == [i \in 1..Len(s) |-> Div(Sub(s[i], Mean(s)), Sqrt(Var(s)))]

\* kwargs['zscore_output'] if 'zscore_output' in kwargs and ... else False,
\* then its truth value; kw is "absent", "None", "False" or "True"
zscore_output(kw) == kw = "True"

\* ------------------------------------------------------------- BTMLE
\* the comparison counts without the transposed half
n_OneSided(m) == [i \in 1..Rows(m) |-> [j \in 1..Rows(m) |-> m[i][j]]]

\* n = alpha + alpha.T
n(m) == [i \in 1..Rows(m) |-> [j \in 1..Rows(m) |-> m[i][j] + m[j][i]]]

\* pp = np.tile(p, (M, 1)) + np.tile(p, (M, 1)).T
pp(q) == [i \in 1..Len(q) |-> [j \in 1..Len(q) |-> Add(q[j], q[i])]]

\* p = np.sum(alpha, axis=1) / np.sum(n / pp, axis=1)
p_quotient(m, q) ==
    [i \in 1..Len(q) |->
        Div(FromInt(RowSum(m, i)),
            Sum([j \in 1..Len(q) |-> Div(FromInt(n(m)[i][j]), pp(q)[i][j])]))]

\* the pass without its renormalization
p_normalized_Skipped(q) == q

\* p = p / np.sum(p)
p_normalized(q) == [i \in 1..Len(q) |-> Div(q[i], Sum(q))]

\* one pass of the fixed-point loop: lines 213-216
p_next(m, q) == p_normalized(p_quotient(m, q))

\* np.log, kept as a term: the logarithm of a rational is not a rational
Log(x) == [fn |-> "log", arg |-> x]

\* stdv[i], the square root of entry i of the diagonal of the pseudo-inverse of
\* the bordered information matrix (lines 225-231), kept as a term: no
\* statement below depends on its value
stdv(m, q, i) == [fn |-> "stdv", item |-> i]

\* scores = np.log(p)
BTMLE_scores(q) == [i \in 1..Len(q) |-> Log(q[i])]

\* the border entry of the diagonal kept: one standard error too many
BTMLE_scores_std_WithBorder(m, q) ==
    [i \in 1..(Len(q) + 1) |->
        [fn |-> "div", num |-> stdv(m, q, i), den |-> q[IF i > Len(q) THEN 1 ELSE i]]]

\* scores_std = stdv / p
BTMLE_scores_std(m, q) ==
    [i \in 1..Len(q) |-> [fn |-> "div", num |-> stdv(m, q, i), den |-> q[i]]]

\* ---------------------------------------------------------- Thurstone
\* norm.cdf and np.log in units of 1e-6, on the differences -1, 0, 1 of the
\* parameter vectors the model hands to the objective
cdf(d) == CASE d = -1 -> 158655 [] d = 0 -> 500000 [] d = 1 -> 841345

LogMicro(x) ==
    CASE x = 158655 -> -1841022 [] x = 500000 -> -693147 [] x = 841345 -> -172754

\* epsilon = 1e-8 / M, in units of 1e-6
epsilon(M) == (1 \div 100) \div M

\* np.tile(v, (M, 1)) - np.tile(v, (M, 1)).T: entry (i, j) is v[j] - v[i]
tile_diff(vv) == [i \in 1..Len(vv) |-> [j \in 1..Len(vv) |-> vv[j] - vv[i]]]

\* mtx of log_likelihood_function
mtx(vv, alpha, M) ==
    [i \in 1..M |-> [j \in 1..M |->
        alpha[i][j] * LogMicro(cdf(tile_diff(vv)[i][j]) + epsilon(M))
        + alpha[j][i] * LogMicro(1000000 - cdf(tile_diff(vv)[i][j]) + epsilon(M))]]

\* return np.sum(mtx)
log_likelihood_function(vv, alpha, M) ==
    IntSum([i \in 1..M |-> IntSum(mtx(vv, alpha, M)[i])])

\* v0 = np.zeros(M), as integers
v0(M) == [i \in 1..M |-> 0]

\* the vectors minimize hands to the objective at its first iterate: v0, and
\* for jac='2-point' v0 moved by one step along each axis (a step of 1 here)
Probes(M) == {v0(M)} \cup {[v0(M) EXCEPT ![i] = 1] : i \in 1..M}

\* status 0: converged; 9: iteration limit (maxiter = 1000) reached; 8: the
\* other failures of SLSQP.  success is status = 0
OptimizerStatus == {0, 8, 9}

\* ------------------------------------------------------------- state
VARIABLES
    TYPE,        \* the model class whose _run_modeling runs
    wm,          \* np.nansum(opinion_score_3darray, axis=2): wm of BTNR, alpha of the others
    kwargs,      \* the value passed as zscore_output, or "absent"; "unread"
                 \* until line 168 reads it
    pc,          \* "start", "loop", "minimize", "done", "error", "capped"
    error,       \* the exception that ended the call, or ""
    iteration,   \* iteration of BTNR and of BTMLE
    gamma,       \* gamma of BTNR
    change,      \* BTNR: change; BTMLE: p - p_prev, whose norm the code keeps
                 \* as change (the norm of a rational vector is not rational)
    p,           \* p of BTMLE
    v,           \* the vector the optimizer last handed to llf_partial
    llf,         \* the value llf_partial returned for it
    ret,         \* the OptimizeResult of minimize
    result       \* the returned dictionary

vars == <<TYPE, wm, kwargs, pc, error, iteration, gamma, change, p, v, llf, ret, result>>

None == [kind |-> "None"]

List(s) == [kind |-> "list", items |-> s]

NoResult == [kind |-> "unset"]

NoRet == [success |-> FALSE, status |-> -1, x |-> <<>>]

\* the 3-item matrix of the monotonicity scenario and a 2-item matrix whose
\* maximum-likelihood strengths are rational
MonotoneWm == <<<<0, 5, 5>>, <<0, 0, 5>>, <<0, 0, 0>>>>

TwoToOneWm == <<<<0, 2>>, <<1, 0>>>>

Scenarios == {MonotoneWm, TwoToOneWm}

\* every matrix of counts 0..MaxCount with up to MaxN rows and columns and the
\* scenarios; a paired comparison needs two items, so no 1 x 1 matrix
Matrices ==
    UNION {[1..r -> [1..c -> 0..MaxCount]] :
              <<r, c>> \in ((1..MaxN) \X (1..MaxN)) \ {<<1, 1>>}}
    \cup Scenarios

Types == {"BTNR", "BTMLE", "THURSTONE_MLE"}

KwargsValues == {"absent", "None", "False", "True"}

Init ==
    /\ TYPE \in Types
    /\ wm \in Matrices
    /\ kwargs = "unread"
    /\ pc = "start"
    /\ error = ""
    /\ iteration = 0
    /\ gamma = <<>>
    /\ change = <<>>
    /\ p = <<>>
    /\ v = <<>>
    /\ llf = 0
    /\ ret = NoRet
    /\ result = NoResult

\* ------------------------------------------------------------- BTNR
\* lines 117-132: the shape assertion and the initial values
BTNR_Start ==
    /\ TYPE = "BTNR" /\ pc = "start"
    /\ IF Square(wm)
       THEN /\ pc' = "loop"
            /\ gamma' = Zeros(Rows(wm))
            /\ change' = <<FLOAT_MAX>>
            /\ error' = error
       ELSE /\ pc' = "error"
            /\ error' = "AssertionError"
            /\ UNCHANGED <<gamma, change>>
    /\ UNCHANGED <<TYPE, wm, kwargs, iteration, p, v, llf, ret, result>>

\* lines 134-152: one pass of the Newton-Raphson loop
BTNR_Iterate ==
    /\ TYPE = "BTNR" /\ pc = "loop"
    /\ NormGtThr(change)
    /\ ExpExact(gamma)
    /\ iteration' = iteration + 1
    /\ change' = BTNR_change(wm, gamma)
    /\ gamma' = VecSub(gamma, change')
    /\ UNCHANGED <<TYPE, wm, kwargs, pc, error, p, v, llf, ret, result>>

\* scores of lines 162-173
BTNR_scores(g, kw) == IF zscore_output(kw) THEN ZScore(PinLast(g)) ELSE PinLast(g)

\* lines 134, 162-178: the loop ends, the scores are pinned, standardized on
\* request and returned
BTNR_Finish ==
    /\ TYPE = "BTNR" /\ pc = "loop"
    /\ ~NormGtThr(change)
    /\ \E kw \in KwargsValues :
          /\ zscore_output(kw) => SqrtExact(Var(PinLast(gamma)))
          /\ kwargs' = kw
          /\ result' = [quality_scores |-> List(BTNR_scores(gamma, kw)),
                        quality_scores_std |-> None]
    /\ gamma' = PinLast(gamma)
    /\ pc' = "done"
    /\ UNCHANGED <<TYPE, wm, error, iteration, change, p, v, llf, ret>>

\* ------------------------------------------------------------- BTMLE
\* lines 199-208
BTMLE_Start ==
    /\ TYPE = "BTMLE" /\ pc = "start"
    /\ IF Square(wm)
       THEN /\ pc' = "loop"
            /\ p' = [i \in 1..Rows(wm) |-> Rat(1, Rows(wm))]
            /\ change' = <<FLOAT_MAX>>
            /\ error' = error
       ELSE /\ pc' = "error"
            /\ error' = "AssertionError"
            /\ UNCHANGED <<p, change>>
    /\ UNCHANGED <<TYPE, wm, kwargs, iteration, gamma, v, llf, ret, result>>

\* lines 210-218: one pass of the fixed-point loop; linalg.norm raises
\* ValueError on a nan or an inf
BTMLE_Iterate ==
    /\ TYPE = "BTMLE" /\ pc = "loop"
    /\ NormGtThr(change)
    /\ Small(p)
    /\ iteration' = iteration + 1
    /\ p' = p_next(wm, p)
    /\ change' = VecSub(p', p)
    /\ IF AllFinite(change')
       THEN UNCHANGED <<pc, error>>
       ELSE pc' = "error" /\ error' = "ValueError"
    /\ UNCHANGED <<TYPE, wm, kwargs, gamma, v, llf, ret, result>>

\* lines 210, 225-237
BTMLE_Finish ==
    /\ TYPE = "BTMLE" /\ pc = "loop"
    /\ ~NormGtThr(change)
    /\ result' = [quality_scores |-> List(BTMLE_scores(p)),
                  quality_scores_std |-> List(BTMLE_scores_std(wm, p))]
    /\ pc' = "done"
    /\ UNCHANGED <<TYPE, wm, kwargs, error, iteration, gamma, change, p, v, llf, ret>>

\* the next pass is not exactly representable: the run leaves the model
LeaveExact ==
    /\ pc = "loop"
    /\ NormGtThr(change)
    /\ \/ TYPE = "BTNR" /\ ~ExpExact(gamma)
       \/ TYPE = "BTMLE" /\ ~Small(p)
    /\ pc' = "capped"
    /\ UNCHANGED <<TYPE, wm, kwargs, error, iteration, gamma, change, p, v, llf, ret, result>>

\* ---------------------------------------------------------- Thurstone
\* lines 258-265: the shape assertion, v0, and the call of minimize
TH_Start ==
    /\ TYPE = "THURSTONE_MLE" /\ pc = "start"
    /\ IF Square(wm)
       THEN pc' = "minimize" /\ error' = error
       ELSE pc' = "error" /\ error' = "AssertionError"
    /\ UNCHANGED <<TYPE, wm, kwargs, iteration, gamma, change, p, v, llf, ret, result>>

\* minimize evaluates llf_partial: first at v0, then where it pleases
TH_Evaluate ==
    /\ TYPE = "THURSTONE_MLE" /\ pc = "minimize"
    /\ \E vv \in Probes(Rows(wm)) :
          /\ v = <<>> => vv = v0(Rows(wm))
          /\ v' = vv
          /\ llf' = log_likelihood_function(vv, wm, Rows(wm))
    /\ UNCHANGED <<TYPE, wm, kwargs, pc, error, iteration, gamma, change, p, ret, result>>

\* the call without its assertion: the vector of a failed run is returned
TH_Return_NoAssert ==
    /\ TYPE = "THURSTONE_MLE" /\ pc = "minimize"
    /\ v # <<>>
    /\ \E st \in OptimizerStatus :
          /\ ret' = [success |-> (st = 0), status |-> st,
                     x |-> [i \in 1..Len(v) |-> FromInt(v[i])]]
          /\ result' = [quality_scores |-> List(ret'.x),
                        quality_scores_std |-> None]
          /\ pc' = "done"
          /\ error' = error
    /\ UNCHANGED <<TYPE, wm, kwargs, iteration, gamma, change, p, v, llf>>

\* lines 265-269: minimize returns its last vector and a status; the call
\* asserts ret.success
TH_Return ==
    /\ TYPE = "THURSTONE_MLE" /\ pc = "minimize"
    /\ v # <<>>
    /\ \E st \in OptimizerStatus :
          /\ ret' = [success |-> (st = 0), status |-> st,
                     x |-> [i \in 1..Len(v) |-> FromInt(v[i])]]
          /\ IF ret'.success
             THEN /\ result' = [quality_scores |-> List(ret'.x),
                                quality_scores_std |-> None]
                  /\ pc' = "done"
                  /\ error' = error
             ELSE /\ pc' = "error"
                  /\ error' = "AssertionError"
                  /\ result' = result
    /\ UNCHANGED <<TYPE, wm, kwargs, iteration, gamma, change, p, v, llf>>

Next ==
    \/ BTNR_Start
    \/ BTNR_Iterate
    \/ BTNR_Finish
    \/ BTMLE_Start
    \/ BTMLE_Iterate
    \/ BTMLE_Finish
    \/ LeaveExact
    \/ TH_Start
    \/ TH_Evaluate
    \/ TH_Return

Spec == Init /\ [][Next]_vars

\* ------------------------------------------------------------ typing
Terminal == {"done", "error", "capped"}

TypeOK ==
    /\ TYPE \in Types
    /\ pc \in {"start", "loop", "minimize"} \cup Terminal
    /\ error \in {"", "AssertionError", "ValueError"}
    /\ iteration \in Nat
    /\ (pc = "error") = (error # "")
    /\ (pc = "done") = (result # NoResult)
    /\ TYPE = "BTNR" => AllFinite(gamma) /\ AllFinite(change)

\* ------------------------------------------------------------ claims

\* C1: whichever the solver, a matrix that is not square ends the call with the
\* AssertionError of the shape check: no pass of a loop has run, the optimizer
\* has neither been called nor has it evaluated the objective, no solver state
\* has been set up and nothing is returned.
C1_ShapeErrorBeforeAnyWork ==
    Rows(wm) # Cols(wm) =>
        /\ pc \in {"start", "error"}
        /\ pc = "error" => error = "AssertionError"
        /\ iteration = 0
        /\ gamma = <<>> /\ p = <<>> /\ change = <<>>
        /\ v = <<>> /\ ret = NoRet
        /\ result = NoResult

C1_Witness == Rows(wm) # Cols(wm) /\ pc = "error" /\ error = "AssertionError"

\* C4: BTNR keeps the last parameter at 0: gamma[n] = 0 before the first pass
\* and after every pass, the last component of every update is 0, and without
\* standardization the last returned score is 0.
C4_LastParameterPinned ==
    (TYPE = "BTNR" /\ pc \in {"loop", "done", "capped"}) =>
        /\ gamma[Len(gamma)] = Zero
        /\ iteration >= 1 => change[Len(change)] = Zero
        /\ (pc = "done" /\ ~zscore_output(kwargs)) =>
               result.quality_scores.items[Rows(wm)] = Zero

C4_Witness ==
    /\ TYPE = "BTNR" /\ iteration >= 1
    /\ gamma[1] # Zero /\ change[1] # Zero
    /\ gamma[Len(gamma)] = Zero /\ change[Len(change)] = Zero

\* C6: the Thurstone call returns a result only when minimize reported success;
\* a failure status (the iteration limit included) ends the call with the
\* AssertionError and nothing is returned, although ret.x holds a vector.
C6_ResultOnlyOnSuccess ==
    TYPE = "THURSTONE_MLE" =>
        /\ pc = "done" => ret.success /\ ret.status = 0
        /\ ret # NoRet /\ ~ret.success =>
               /\ pc = "error" /\ error = "AssertionError"
               /\ result = NoResult

C6_Witness ==
    /\ TYPE = "THURSTONE_MLE" /\ ret.status = 9 /\ Len(ret.x) = Rows(wm)
    /\ pc = "error" /\ result = NoResult

\* C7: a returned result has exactly the fields quality_scores and
\* quality_scores_std; quality_scores has one entry per row of the matrix, entry
\* i being the score of row i; quality_scores_std is None for BTNR and for
\* Thurstone and has one entry per row for BTMLE.
C7_OutputContract ==
    pc = "done" =>
        /\ DOMAIN result = {"quality_scores", "quality_scores_std"}
        /\ result.quality_scores.kind = "list"
        /\ Len(result.quality_scores.items) = Rows(wm)
        /\ TYPE = "BTNR" =>
               /\ result.quality_scores_std = None
               /\ ~zscore_output(kwargs) => result.quality_scores.items = gamma
        /\ TYPE = "THURSTONE_MLE" =>
               /\ result.quality_scores_std = None
               /\ result.quality_scores.items = ret.x
        /\ TYPE = "BTMLE" =>
               /\ result.quality_scores_std.kind = "list"
               /\ Len(result.quality_scores_std.items) = Rows(wm)
               /\ \A i \in 1..Rows(wm) :
                      /\ result.quality_scores.items[i] = Log(p[i])
                      /\ result.quality_scores_std.items[i].den = p[i]

C7_Witness ==
    /\ pc = "done" /\ TYPE = "BTMLE" /\ Rows(wm) = 2
    /\ Len(result.quality_scores.items) = 2
    /\ Len(result.quality_scores_std.items) = 2

\* np.exp of a score of BTMLE: the argument of its logarithm
ExpOfLog(t) == t.arg

\* C8: BTMLE keeps p summing to 1: at the start, after every pass that
\* completes, and in the result, whose scores exponentiated sum to 1.
C8_ProbabilitiesSumToOne ==
    (TYPE = "BTMLE" /\ pc \in {"loop", "done", "capped"}) =>
        /\ Sum(p) = One
        /\ pc = "done" =>
               Sum([i \in 1..Rows(wm) |->
                       ExpOfLog(result.quality_scores.items[i])]) = One

C8_Witness ==
    /\ TYPE = "BTMLE" /\ pc = "done" /\ iteration = 2
    /\ p = <<Rat(2, 3), Rat(1, 3)>>

\* score a ranks above score b; BTMLE scores are logarithms, and the logarithm
\* is increasing
ScoreGt(a, b) == IF TYPE = "BTMLE" THEN Gt(a.arg, b.arg) ELSE Gt(a, b)

\* C2: on the matrix of the monotonicity scenario every solver returns scores
\* ranked A > B > C.  The scores of the Thurstone solver are the vector of the
\* optimizer, which the model leaves open, so the statement is made of the two
\* solvers whose scores the source determines.
C2_MonotoneRanking ==
    (wm = MonotoneWm /\ TYPE \in {"BTNR", "BTMLE"} /\ pc \in {"done", "error"}) =>
        /\ pc = "done"
        /\ ScoreGt(result.quality_scores.items[1], result.quality_scores.items[2])
        /\ ScoreGt(result.quality_scores.items[2], result.quality_scores.items[3])

\* C3: a BTNR result computed with zscore_output true has mean 0 and standard
\* deviation 1, and the standardization never divides by a standard deviation
\* of 0.
C3_ZScoreStandardized ==
    (TYPE = "BTNR" /\ pc = "done" /\ zscore_output(kwargs)) =>
        /\ Var(gamma) # Zero
        /\ AllFinite(result.quality_scores.items)
        /\ Mean(result.quality_scores.items) = Zero
        /\ Var(result.quality_scores.items) = One

\* wm[i,j] == wm[j,i] for all i, j
Symmetric(m) == Square(m) /\ \A i, j \in 1..Rows(m) : m[i][j] = m[j][i]

\* C5: on a symmetric matrix BTNR leaves its loop after exactly one pass, with
\* a zero update and gamma = 0, and every returned score equals 0.
C5_SymmetricAllZero ==
    (TYPE = "BTNR" /\ Symmetric(wm)) =>
        /\ pc # "capped" /\ iteration <= 1
        /\ iteration = 1 => change = Zeros(Rows(wm)) /\ gamma = Zeros(Rows(wm))
        /\ pc = "done" =>
               /\ iteration = 1
               /\ result.quality_scores.items = Zeros(Rows(wm))

\* the total log-likelihood as the specification writes it: the sum over the
\* ordered pairs (i, j) of
\*   alpha[i,j] * log(Phi(v_i - v_j) + eps) + alpha[j,i] * log(1 - Phi(v_i - v_j) + eps)
TotalLogLikelihood(vv, alpha, M) ==
    IntSum([i \in 1..M |-> IntSum([j \in 1..M |->
        alpha[i][j] * LogMicro(cdf(vv[i] - vv[j]) + epsilon(M))
        + alpha[j][i] * LogMicro(1000000 - cdf(vv[i] - vv[j]) + epsilon(M))])])

\* C9: the value the objective returns to the minimizer is the negation of the
\* total log-likelihood, whose difference matrix has v_i - v_j at entry (i, j).
C9_NegatedLogLikelihood ==
    (TYPE = "THURSTONE_MLE" /\ pc = "minimize" /\ v # <<>>) =>
        llf = -TotalLogLikelihood(v, wm, Rows(wm))

\* every item has at least one recorded win
AllWin(m) == \A i \in 1..Rows(m) : RowSum(m, i) > 0

\* item i has at least one recorded comparison
Compared(m, i) == \E j \in 1..Rows(m) : m[i][j] > 0 \/ m[j][i] > 0

\* the divisions of the next pass from q all have a non-zero denominator
DenominatorsNonZero(m, q) ==
    /\ \A i, j \in 1..Len(q) : pp(q)[i][j] # Zero
    /\ \A i \in 1..Len(q) :
           Sum([j \in 1..Len(q) |-> Div(FromInt(n(m)[i][j]), pp(q)[i][j])]) # Zero
    /\ Sum(p_quotient(m, q)) # Zero

\* first half of C10, kept by the amended claim: when every item has a win,
\* every p[i] stays positive, no pass divides by zero and no pass fails
C10_PositiveWhenAllWin ==
    (TYPE = "BTMLE" /\ Square(wm) /\ AllWin(wm) /\ pc # "start") =>
        /\ pc # "error"
        /\ \A i \in 1..Rows(wm) : Gt(p[i], Zero)
        /\ Small(p) => DenominatorsNonZero(wm, p)

\* C10 as claimed: the first half, and every item without a win has p[i] = 0
\* after the first pass, from where the second pass evaluates 0/0 on the
\* diagonal.
C10_Original ==
    /\ C10_PositiveWhenAllWin
    /\ (TYPE = "BTMLE" /\ Square(wm) /\ iteration = 1) =>
           \A i \in 1..Rows(wm) :
               RowSum(wm, i) = 0 =>
                   /\ pc = "loop"
                   /\ p[i] = Zero
                   /\ Div(FromInt(n(wm)[i][i]), pp(p)[i][i]) = NaN

\* C10 as amended: the first half; when every item has a recorded comparison,
\* an item without a win has p[i] = 0 after the first pass and the second pass
\* evaluates 0/0 on the diagonal and ends with the ValueError of linalg.norm;
\* an item without any recorded comparison makes the first pass itself
\* evaluate 0/0 and end the same way.
C10_Amended ==
    /\ C10_PositiveWhenAllWin
    /\ (TYPE = "BTMLE" /\ Square(wm) /\ ~AllWin(wm) /\ iteration >= 1) =>
           IF \A k \in 1..Rows(wm) : Compared(wm, k)
           THEN /\ iteration <= 2
                /\ iteration = 1 =>
                       /\ pc \in {"loop", "capped"}
                       /\ \A i \in 1..Rows(wm) :
                              RowSum(wm, i) = 0 =>
                                  /\ p[i] = Zero
                                  /\ Div(FromInt(n(wm)[i][i]), pp(p)[i][i]) = NaN
                /\ iteration = 2 =>
                       /\ pc = "error" /\ error = "ValueError"
                       /\ \A i \in 1..Rows(wm) : IsNaN(p[i])
           ELSE /\ iteration = 1
                /\ pc = "error" /\ error = "ValueError"
                /\ \A i \in 1..Rows(wm) : IsNaN(p[i])

C10_Witness ==
    /\ TYPE = "BTMLE" /\ wm = MonotoneWm
    /\ iteration = 2 /\ pc = "error" /\ error = "ValueError"
    /\ IsNaN(p[3])

====
